---- MODULE Spec2Model ----
(***************************************************************************)
(* Model of webcompat/api/endpoints.py: the Flask blueprint that proxies   *)
(* XHR requests to the GitHub issues API.  Every view function is one      *)
(* action; the state is the request being served, the list of api_request  *)
(* calls the view made, and the response it produced.                      *)
(*                                                                         *)
(* Python strings that the code concatenates are sequences of chunks, so   *)
(* that "+=" and str.format are sequence concatenation.  The empty string  *)
(* is <<>>.  Query parameters live in a werkzeug MultiDict: a function     *)
(* from key to the list of values stored under it (<<>> = key absent).     *)
(***************************************************************************)
EXTENDS Integers, Sequences, FiniteSets, TLC

MaxArgs == 2

\* ---------------------------------------------------------------- config
\* app.config is read-only after start; the values below are one sample
\* configuration (repository paths, milestone ids, status table).
ISSUES_PATH == <<"webcompat/web-bugs", "/issues">>

PRIVATE_ISSUES_PATH == <<"webcompat/web-bugs-private", "/issues">>

AUTOCLOSED_MILESTONE_ID == 15

\* ISSUES_PATH[:-7] drops the trailing "/issues" (7 characters).
REPO_PATH == SubSeq(ISSUES_PATH, 1, Len(ISSUES_PATH) - 1)

JSON_MIME_HTML == "application/vnd.github.v3.html+json"

HTML_MIME == "text/html"

STATUSES ==
    [needsinfo  |-> [id |-> 1, state |-> "open"],
     actionable |-> [id |-> 2, state |-> "open"],
     wontfix    |-> [id |-> 3, state |-> "closed"]]

OPEN_STATUSES == {"needsinfo", "actionable"}

\* ---------------------------------------------------------- python values
None == [none |-> TRUE]

PyStr(chunks) == [str |-> chunks]

PyInt(n) == [int |-> n]

IsStr(v) == DOMAIN v = {"str"}

IsInt(v) == DOMAIN v = {"int"}

\* Python truthiness of None, str and int values.
Truthy(v) ==
    IF v = None THEN FALSE
    ELSE IF IsStr(v) THEN v.str /= <<>>
    ELSE v.int /= 0

\* x or y
PyOr(x, y) == IF Truthy(x) THEN x ELSE y

\* a + b on str
Concat(a, b) == PyStr(a.str \o b.str)

\* ------------------------------------------------------ werkzeug MultiDict
Keys == {"q", "per_page", "state", "labels", "milestone", "creator",
         "mentioned", "direction", "order"}

EmptyMD == [k \in Keys |-> <<>>]

\* MultiDict.get(key): the first value, or None.
MDGet(md, k) == IF md[k] = <<>> THEN None ELSE Head(md[k])

\* MultiDict.__setitem__: replaces every value stored under the key.
MDSet(md, k, v) == [md EXCEPT ![k] = <<v>>]

\* MultiDict.add: appends to the values stored under the key.
MDAdd(md, k, v) == [md EXCEPT ![k] = Append(@, v)]

\* MultiDict.update(mapping): adds, it does not replace.
MDUpdate(md, k, v) == MDAdd(md, k, v)

\* bool(MultiDict): true iff some key is stored.
MDTruthy(md) == \E k \in Keys : md[k] /= <<>>

RECURSIVE FromPairs(_)
\* request.args for a query string given as its (key, value) pairs.
FromPairs(pairs) ==
    IF pairs = <<>> THEN EmptyMD
    ELSE MDAdd(FromPairs(SubSeq(pairs, 1, Len(pairs) - 1)),
               pairs[Len(pairs)][1], pairs[Len(pairs)][2])

\* ----------------------------------------------------------------- inputs
ArgPairs ==
    { <<"q", PyStr(<<>>)>>, <<"q", PyStr(<<"foo">>)>>,
      <<"per_page", PyStr(<<"50">>)>>, <<"per_page", PyStr(<<"100">>)>>,
      <<"state", PyStr(<<"open">>)>>, <<"milestone", PyStr(<<"9">>)>>,
      <<"labels", PyStr(<<"bug">>)>>, <<"direction", PyStr(<<"asc">>)>> }

RECURSIVE SeqsUpTo(_, _)
SeqsUpTo(S, n) ==
    IF n = 0 THEN {<<>>}
    ELSE LET shorter == SeqsUpTo(S, n - 1)
         IN shorter \cup {Append(s, x) : s \in shorter, x \in S}

RequestArgs == {FromPairs(p) : p \in SeqsUpTo(ArgPairs, MaxArgs)}

NoUser == "<anonymous>"

GUsers == {NoUser, "miket"}

Usernames == {<<"miket">>, <<"all">>}

Parameters == {"needsinfo", "creator", "mentioned", "state", "labels"}

Categories == {"needsinfo", "actionable", "wontfix", "closed", "bogus"}

Numbers == {1, 2}

\* Status codes the upstream API answers with.
UpstreamStatus == {200, 304, 422}

\* ------------------------------------------------------------ collaborators
\* The tuple api_request returns: (content, status_code, headers).
ApiResult(status, mime_type) ==
    <<IF status = 304 THEN "" ELSE "upstream-json", status,
      [etag |-> "W/etag", content_type |-> mime_type]>>

\* helpers.api_request: one outbound call, recorded with its arguments and
\* with the tuple it returned.
ApiCall(m, p, ps, d, mt, status) ==
    [method |-> m, path |-> p, params |-> ps, data |-> d, mime_type |-> mt,
     result |-> ApiResult(status, mt)]

\* helpers.get_response_headers(response, mime_type)
GetResponseHeaders(result, mime_type) ==
    [etag |-> result[3].etag, content_type |-> mime_type]

\* A view's return value as Flask sends it.
Response(b, st, hs) == [body |-> b, status |-> st, headers |-> hs]

\* flask.abort(code)
Abort(code) == Response("abort", code, None)

\* An exception no view catches: Flask answers 500.
Unhandled(exc) == Response(exc, 500, None)

\* A view returning api_request's tuple as it is.
Relay(result) == Response(result[1], result[2], result[3])

\* api.helpers.get_html_comments(response): the rendered fragment.
GetHtmlComments(result) ==
    Response("html-fragment", 200, GetResponseHeaders(result, HTML_MIME))

\* helpers.normalize_api_params: issue-list names to search-API names.
NormalizeApiParams(params) ==
    IF params["direction"] /= <<>>
    THEN [MDSet(params, "order", MDGet(params, "direction"))
             EXCEPT !["direction"] = <<>>]
    ELSE params

\* What a view did: its outbound calls, its response, whether it rendered.
Outcome(cs, rsp, rnd) == [calls |-> cs, response |-> rsp, rendered |-> rnd]

\* A view that answers without calling upstream.
Reject(rsp) == Outcome(<<>>, rsp, FALSE)

\* return api_request(...)
Forward(call) == Outcome(<<call>>, Relay(call.result), FALSE)

\* 'repos/{0}'.format(path)
ReposPath(path) == <<"repos/">> \o path

\* 'repos/{0}/{1}'.format(path, number)
IssuePath(path, number) == ReposPath(path) \o <<"/", ToString(number)>>

\* --------------------------------------------------------------- the views
\* proxy_issue(number)
proxy_issue(number, status) ==
    Forward(ApiCall("get", IssuePath(ISSUES_PATH, number), None, None,
                    JSON_MIME_HTML, status))

\* [(STATUSES[status]['id'], STATUSES[status]['state']) for status in STATUSES]
valid_statuses ==
    {<<STATUSES[s].id, STATUSES[s].state>> : s \in DOMAIN STATUSES}

\* The allow-list test with the length check lost.
EditAllowedAnyLength(patch_data) ==
    <<patch_data["milestone"], patch_data["state"]>> \in valid_statuses

\* The allow-list test of edit_issue on a decoded body holding both fields.
EditAllowed(patch_data) ==
    /\ <<patch_data["milestone"], patch_data["state"]>> \in valid_statuses
    /\ Cardinality(DOMAIN patch_data) = 2

\* edit_issue(number); data is request.data
edit_issue(g_user, number, data, status) ==
    IF g_user = NoUser THEN Reject(Abort(403))
    ELSE IF ~data.valid THEN Reject(Unhandled("ValueError"))
    ELSE LET patch_data == data.obj
         IN IF "milestone" \notin DOMAIN patch_data
               \/ "state" \notin DOMAIN patch_data
            THEN Reject(Unhandled("KeyError"))
            ELSE IF EditAllowed(patch_data)
            THEN LET call == ApiCall("patch", IssuePath(ISSUES_PATH, number),
                                     None, data, "default", status)
                 IN Outcome(<<call>>,
                            Response(call.result[1], call.result[2],
                                     [content_type |-> JSON_MIME_HTML]),
                            FALSE)
            ELSE Reject(Abort(403))

\* get_search_results with the ' is:issue' qualifier left out.
get_search_results_no_is_issue(query_string, params, args, status) ==
    LET params1 == IF params /= None /\ MDTruthy(params) THEN params ELSE args
        qs      == PyOr(query_string, MDGet(params1, "q"))
    IN IF ~Truthy(qs) THEN Reject(Abort(404))
       ELSE LET qs2     == Concat(qs, PyStr(<<" repo:">> \o REPO_PATH))
                params2 == MDSet(params1, "q", qs2)
            IN Forward(ApiCall("get", <<"search/issues">>,
                               NormalizeApiParams(params2), None,
                               JSON_MIME_HTML, status))

\* get_search_results(query_string=None, params=None); args is request.args
get_search_results(query_string, params, args, status) ==
    LET params1 == IF params /= None /\ MDTruthy(params) THEN params ELSE args
        qs      == PyOr(query_string, MDGet(params1, "q"))
    IN IF ~Truthy(qs) THEN Reject(Abort(404))
       ELSE LET qs2     == Concat(qs, PyStr(<<" repo:">> \o REPO_PATH))
                params2 == MDSet(params1, "q", qs2)
                params3 == MDSet(params2, "q",
                                 Concat(MDGet(params2, "q"),
                                        PyStr(<<" is:issue">>)))
                params4 == NormalizeApiParams(params3)
            IN Forward(ApiCall("get", <<"search/issues">>, params4, None,
                               JSON_MIME_HTML, status))

\* proxy_issues with the elif branch lost: anonymous q falls through.
proxy_issues_no_abort(g_user, args, status) ==
    LET params == args
    IN IF g_user /= NoUser /\ Truthy(MDGet(params, "q"))
       THEN get_search_results(MDGet(params, "q"), params, args, status)
       ELSE Forward(ApiCall("get", ReposPath(ISSUES_PATH), params, None,
                            "default", status))

\* proxy_issues()
proxy_issues(g_user, args, status) ==
    LET params == args
    IN IF g_user /= NoUser /\ Truthy(MDGet(params, "q"))
       THEN get_search_results(MDGet(params, "q"), params, args, status)
       ELSE IF Truthy(MDGet(params, "q"))
       THEN Reject(Abort(404))
       ELSE Forward(ApiCall("get", ReposPath(ISSUES_PATH), params, None,
                            "default", status))

\* proxy_autoclosed()
proxy_autoclosed(g_user, args, status) ==
    LET params == MDAdd(args, "milestone", PyInt(AUTOCLOSED_MILESTONE_ID))
    IN IF g_user = NoUser THEN Reject(Abort(404))
       ELSE Forward(ApiCall("get", ReposPath(PRIVATE_ISSUES_PATH), params,
                            None, "default", status))

\* get_user_activity_issues with state added to, not set in, the params.
get_user_activity_issues_add_state(g_user, username, parameter, args, status) ==
    IF g_user = NoUser THEN Reject(Abort(401))
    ELSE LET params1 == MDAdd(args, "state", PyStr(<<"all">>))
             params2 ==
                 IF parameter = "needsinfo"
                 THEN MDSet(params1, "labels",
                            PyStr(<<"status-needsinfo-">> \o username))
                 ELSE MDSet(params1, parameter, PyStr(username))
         IN Forward(ApiCall("get", ReposPath(ISSUES_PATH), params2, None,
                            "default", status))

\* get_user_activity_issues(username, parameter)
get_user_activity_issues(g_user, username, parameter, args, status) ==
    IF g_user = NoUser THEN Reject(Abort(401))
    ELSE LET params1 == MDSet(args, "state", PyStr(<<"all">>))
             params2 ==
                 IF parameter = "needsinfo"
                 THEN MDSet(params1, "labels",
                            PyStr(<<"status-needsinfo-">> \o username))
                 ELSE MDSet(params1, parameter, PyStr(username))
         IN Forward(ApiCall("get", ReposPath(ISSUES_PATH), params2, None,
                            "default", status))

\* get_issue_category dispatching on every configured status name.
get_issue_category_all_statuses(issue_category, args, status) ==
    LET issues_path == ReposPath(ISSUES_PATH)
    IN IF issue_category \in DOMAIN STATUSES
       THEN Forward(ApiCall("get", issues_path,
                            MDAdd(args, "milestone",
                                  PyInt(STATUSES[issue_category].id)),
                            None, "default", status))
       ELSE IF issue_category = "closed"
       THEN Forward(ApiCall("get", issues_path,
                            MDSet(args, "state", PyStr(<<"closed">>)),
                            None, "default", status))
       ELSE Reject(Abort(404))

\* get_issue_category(issue_category)
get_issue_category(issue_category, args, status) ==
    LET category_list == OPEN_STATUSES
        issues_path   == ReposPath(ISSUES_PATH)
    IN IF issue_category \in category_list
       THEN Forward(ApiCall("get", issues_path,
                            MDAdd(args, "milestone",
                                  PyInt(STATUSES[issue_category].id)),
                            None, "default", status))
       ELSE IF issue_category = "closed"
       THEN Forward(ApiCall("get", issues_path,
                            MDSet(args, "state", PyStr(<<"closed">>)),
                            None, "default", status))
       ELSE Reject(Abort(404))

\* comments_data[1:2]: a slice of a tuple is a tuple.
StatusSlice(comments_data) == [tuple |-> SubSeq(comments_data, 2, 2)]

\* Python's != between two values: values of different types are unequal.
PyNe(a, b) == IF DOMAIN a = DOMAIN b THEN a /= b ELSE TRUE

\* comments_status != 304
ShouldRender(comments_data) == PyNe(StatusSlice(comments_data), PyInt(304))

\* proxy_comments(number)
proxy_comments(method, g_user, number, args, data, status) ==
    LET path == IssuePath(ISSUES_PATH, number) \o <<"/comments">>
    IN IF method = "POST" /\ g_user /= NoUser
       THEN LET call == ApiCall("post", path, args, [comment_data |-> data],
                                JSON_MIME_HTML, status)
            IN Outcome(<<call>>, GetHtmlComments(call.result), TRUE)
       ELSE LET params == MDUpdate(args, "per_page", PyInt(100))
                call   == ApiCall("get", path, params, None, JSON_MIME_HTML,
                                  status)
                comments_data == call.result
            IN IF ShouldRender(comments_data)
               THEN Outcome(<<call>>, GetHtmlComments(comments_data), TRUE)
               ELSE Outcome(<<call>>,
                            Response("", 304,
                                     GetResponseHeaders(comments_data,
                                                        HTML_MIME)),
                            FALSE)

\* modify_labels(number)
modify_labels(g_user, number, data, status) ==
    IF g_user /= NoUser
    THEN Forward(ApiCall("put",
                         IssuePath(ISSUES_PATH, number) \o <<"/labels">>,
                         None, data, "default", status))
    ELSE Reject(Abort(403))

\* get_repo_labels()
get_repo_labels(args, status) ==
    Forward(ApiCall("get", ReposPath(REPO_PATH) \o <<"/labels">>, args, None,
                    "default", status))

\* ------------------------------------------------------------ request data
\* A JSON object with the chosen fields among milestone, state and title.
JsonObject(hasM, m, hasS, st, hasT) ==
    [k \in (IF hasM THEN {"milestone"} ELSE {})
           \cup (IF hasS THEN {"state"} ELSE {})
           \cup (IF hasT THEN {"title"} ELSE {})
       |-> IF k = "milestone" THEN m ELSE IF k = "state" THEN st ELSE "x"]

Milestones == {1, 2, 3, 4}

States == {"open", "closed"}

\* request.data of an edit: a JSON object, or bytes json.loads rejects.
EditData ==
    {[valid |-> TRUE, obj |-> JsonObject(hasM, m, hasS, st, hasT)] :
        hasM \in BOOLEAN, m \in Milestones, hasS \in BOOLEAN, st \in States,
        hasT \in BOOLEAN}
    \cup {[valid |-> FALSE, obj |-> JsonObject(FALSE, 1, FALSE, "open", FALSE)]}

LabelsData == {"[]", "[\"browser-firefox\"]"}

CommentData == {"{\"rawBody\": \"hi\"}"}

\* ------------------------------------------------------------------- state
VARIABLES request, calls, response, rendered

vars == <<request, calls, response, rendered>>

Request(ep, m, u, va, as, d) ==
    [endpoint |-> ep, method |-> m, g_user |-> u, view_args |-> va,
     args |-> as, data |-> d]

NoRequest == Request("none", "none", NoUser, None, EmptyMD, None)

NoResponse == Response("none", 0, None)

Init ==
    /\ request = NoRequest
    /\ calls = <<>>
    /\ response = NoResponse
    /\ rendered = FALSE

\* No request is in flight: the worker can take the next one.
Idle == request.endpoint = "none"

\* One request-response cycle: the view runs to completion.
Serve(req, outcome) ==
    /\ request' = req
    /\ calls' = outcome.calls
    /\ response' = outcome.response
    /\ rendered' = outcome.rendered

ProxyIssue ==
    \E number \in Numbers, g_user \in GUsers, status \in UpstreamStatus :
        /\ Idle
        /\ Serve(Request("proxy_issue", "GET", g_user, [number |-> number],
                         EmptyMD, None),
                 proxy_issue(number, status))

EditIssue ==
    \E number \in Numbers, g_user \in GUsers, data \in EditData,
       status \in UpstreamStatus :
        /\ Idle
        /\ Serve(Request("edit_issue", "PATCH", g_user, [number |-> number],
                         EmptyMD, data),
                 edit_issue(g_user, number, data, status))

ProxyIssues ==
    \E g_user \in GUsers, args \in RequestArgs, status \in UpstreamStatus :
        /\ Idle
        /\ Serve(Request("proxy_issues", "GET", g_user, None, args, None),
                 proxy_issues(g_user, args, status))

ProxyAutoclosed ==
    \E g_user \in GUsers, args \in RequestArgs, status \in UpstreamStatus :
        /\ Idle
        /\ Serve(Request("proxy_autoclosed", "GET", g_user, None, args, None),
                 proxy_autoclosed(g_user, args, status))

GetUserActivityIssues ==
    \E g_user \in GUsers, username \in Usernames, parameter \in Parameters,
       args \in RequestArgs, status \in UpstreamStatus :
        /\ Idle
        /\ Serve(Request("get_user_activity_issues", "GET", g_user,
                         [username |-> username, parameter |-> parameter],
                         args, None),
                 get_user_activity_issues(g_user, username, parameter, args,
                                          status))

GetIssueCategory ==
    \E g_user \in GUsers, issue_category \in Categories,
       args \in RequestArgs, status \in UpstreamStatus :
        /\ Idle
        /\ Serve(Request("get_issue_category", "GET", g_user,
                         [issue_category |-> issue_category], args, None),
                 get_issue_category(issue_category, args, status))

GetSearchResults ==
    \E g_user \in GUsers, args \in RequestArgs, status \in UpstreamStatus :
        /\ Idle
        /\ Serve(Request("get_search_results", "GET", g_user, None, args, None),
                 get_search_results(None, None, args, status))

ProxyComments ==
    \E method \in {"GET", "POST"}, g_user \in GUsers, number \in Numbers,
       args \in RequestArgs, data \in CommentData,
       status \in UpstreamStatus :
        /\ Idle
        /\ Serve(Request("proxy_comments", method, g_user, [number |-> number],
                         args, IF method = "POST" THEN data ELSE None),
                 proxy_comments(method, g_user, number, args, data, status))

ModifyLabels ==
    \E g_user \in GUsers, number \in Numbers, data \in LabelsData,
       status \in UpstreamStatus :
        /\ Idle
        /\ Serve(Request("modify_labels", "POST", g_user, [number |-> number],
                         EmptyMD, data),
                 modify_labels(g_user, number, data, status))

GetRepoLabels ==
    \E g_user \in GUsers, args \in RequestArgs, status \in UpstreamStatus :
        /\ Idle
        /\ Serve(Request("get_repo_labels", "GET", g_user, None, args, None),
                 get_repo_labels(args, status))

\* The response is sent and the request context is popped.
Teardown ==
    /\ ~Idle
    /\ request' = NoRequest
    /\ calls' = <<>>
    /\ response' = NoResponse
    /\ rendered' = FALSE

Next ==
    \/ ProxyIssue
    \/ EditIssue
    \/ ProxyIssues
    \/ ProxyAutoclosed
    \/ GetUserActivityIssues
    \/ GetIssueCategory
    \/ GetSearchResults
    \/ ProxyComments
    \/ ModifyLabels
    \/ GetRepoLabels
    \/ Teardown

Spec == Init /\ [][Next]_vars

\* ------------------------------------------------------------- properties
Anonymous == request.g_user = NoUser

At(endpoint) == request.endpoint = endpoint

\* The request took the GET branch of proxy_comments.
CommentsGet ==
    At("proxy_comments") /\ ~(request.method = "POST" /\ ~Anonymous)

IsHundred(v) == v = PyInt(100) \/ v = PyStr(<<"100">>)

\* C1: an anonymous request to the private, user-activity, edit or
\* label-modify route, or an anonymous POST to the comments route, makes no
\* upstream call, and the first four answer 404, 401, 403 and 403.
C1_AnonymousNeverCallsUpstream ==
    Anonymous =>
        /\ At("proxy_autoclosed") => calls = <<>> /\ response.status = 404
        /\ At("get_user_activity_issues") =>
               calls = <<>> /\ response.status = 401
        /\ At("edit_issue") => calls = <<>> /\ response.status = 403
        /\ At("modify_labels") => calls = <<>> /\ response.status = 403
        /\ (At("proxy_comments") /\ request.method = "POST") => calls = <<>>

\* C2: an edit is forwarded as a PATCH only for an authenticated caller whose
\* decoded body has exactly the fields milestone and state, equal to the id
\* and state of one entry of STATUSES.
C2_EditForwardedOnlyIfAllowListed ==
    (At("edit_issue") /\ calls /= <<>>) =>
        /\ Len(calls) = 1
        /\ calls[1].method = "patch"
        /\ ~Anonymous
        /\ request.data.valid
        /\ DOMAIN request.data.obj = {"milestone", "state"}
        /\ \E s \in DOMAIN STATUSES :
               /\ request.data.obj["milestone"] = STATUSES[s].id
               /\ request.data.obj["state"] = STATUSES[s].state

\* An authenticated edit with an allow-listed two-field body was forwarded.
C2_Witness ==
    /\ At("edit_issue")
    /\ ~Anonymous
    /\ request.data.valid
    /\ DOMAIN request.data.obj = {"milestone", "state"}
    /\ request.data.obj["milestone"] = 2
    /\ request.data.obj["state"] = "open"
    /\ Len(calls) = 1
    /\ calls[1].method = "patch"

\* C3: every edit request is either forwarded upstream or answered 403
\* without an upstream call.
C3_EditForwardedOrForbidden ==
    At("edit_issue") =>
        \/ Len(calls) = 1 /\ calls[1].method = "patch"
        \/ calls = <<>> /\ response.status = 403

\* C4: a comments GET whose upstream call answers 304 responds with an empty
\* body and status 304 and does not render HTML.
C4_NotModifiedIsRelayedUnrendered ==
    (CommentsGet /\ calls[1].result[2] = 304) =>
        /\ response.body = ""
        /\ response.status = 304
        /\ ~rendered

\* C5 as stated: the one upstream call of an authenticated user-activity
\* request has state 'all' for every parameter, labels set for needsinfo and
\* <parameter> = <username> otherwise.
C5_StateAlwaysAll ==
    (At("get_user_activity_issues") /\ ~Anonymous) =>
        /\ Len(calls) = 1
        /\ calls[1].params["state"] = <<PyStr(<<"all">>)>>
        /\ IF request.view_args.parameter = "needsinfo"
           THEN calls[1].params["labels"] =
                    <<PyStr(<<"status-needsinfo-">>
                            \o request.view_args.username)>>
           ELSE calls[1].params[request.view_args.parameter] =
                    <<PyStr(request.view_args.username)>>

\* C5 amended: state is 'all' whenever parameter is not 'state'; when
\* parameter is 'state' the state is the username.
C5_StateAllUnlessParameterIsState ==
    (At("get_user_activity_issues") /\ ~Anonymous) =>
        /\ Len(calls) = 1
        /\ calls[1].method = "get"
        /\ request.view_args.parameter /= "state" =>
               calls[1].params["state"] = <<PyStr(<<"all">>)>>
        /\ IF request.view_args.parameter = "needsinfo"
           THEN calls[1].params["labels"] =
                    <<PyStr(<<"status-needsinfo-">>
                            \o request.view_args.username)>>
           ELSE calls[1].params[request.view_args.parameter] =
                    <<PyStr(request.view_args.username)>>

\* An authenticated user-activity request whose caller supplied a state.
C5_Witness ==
    /\ At("get_user_activity_issues")
    /\ ~Anonymous
    /\ request.view_args.parameter = "creator"
    /\ request.args["state"] /= <<>>
    /\ Len(calls) = 1

\* C6: the outbound params of a comments GET carry per_page 100 and no other
\* per_page value.
C6_PerPageIsOnlyHundred ==
    CommentsGet =>
        /\ Len(calls) = 1
        /\ IsHundred(MDGet(calls[1].params, "per_page"))
        /\ \A i \in 1..Len(calls[1].params["per_page"]) :
               IsHundred(calls[1].params["per_page"][i])

\* What a direct Search request with the same args would call.
DirectSearchCalls ==
    get_search_results(None, None, request.args, calls[1].result[2]).calls

PlainListPath == <<"repos/">> \o ISSUES_PATH

\* C7 as stated: a List issues request with a q param present goes to Search
\* when authenticated and to 404 otherwise; the plain list is called only
\* when no q param is present.
C7_AnyQGoesToSearch ==
    At("proxy_issues") =>
        /\ (request.args["q"] /= <<>> /\ ~Anonymous) =>
               /\ Len(calls) = 1
               /\ calls[1].path = <<"search/issues">>
               /\ calls = DirectSearchCalls
        /\ (request.args["q"] /= <<>> /\ Anonymous) =>
               calls = <<>> /\ response.status = 404
        /\ (calls /= <<>> /\ calls[1].path = PlainListPath) =>
               request.args["q"] = <<>> /\ calls[1].params = request.args

\* C7 amended: the q param counts only when its (first) value is non-empty;
\* the plain list is called when q is absent or empty.
C7_NonEmptyQGoesToSearch ==
    At("proxy_issues") =>
        /\ (Truthy(MDGet(request.args, "q")) /\ ~Anonymous) =>
               /\ Len(calls) = 1
               /\ calls[1].path = <<"search/issues">>
               /\ calls = DirectSearchCalls
        /\ (Truthy(MDGet(request.args, "q")) /\ Anonymous) =>
               calls = <<>> /\ response.status = 404
        /\ (calls /= <<>> /\ calls[1].path = PlainListPath) =>
               /\ ~Truthy(MDGet(request.args, "q"))
               /\ calls[1].params = request.args
        /\ ~Truthy(MDGet(request.args, "q")) =>
               Len(calls) = 1 /\ calls[1].path = PlainListPath

\* An authenticated List issues request with q=foo reached Search.
C7_Witness ==
    /\ At("proxy_issues")
    /\ ~Anonymous
    /\ MDGet(request.args, "q") = PyStr(<<"foo">>)
    /\ Len(calls) = 1
    /\ calls[1].path = <<"search/issues">>

\* The q the upstream search call must carry for the q the caller sent.
ExpectedQ ==
    PyStr(MDGet(request.args, "q").str
          \o <<" repo:">> \o REPO_PATH \o <<" is:issue">>)

C9_CategoryDispatch ==
    At("get_issue_category") =>
        LET cat == request.view_args.issue_category
        IN IF cat \in OPEN_STATUSES
           THEN /\ Len(calls) = 1
                /\ calls[1].path = PlainListPath
                /\ calls[1].params["milestone"] =
                       Append(request.args["milestone"],
                              PyInt(STATUSES[cat].id))
           ELSE IF cat = "closed"
           THEN /\ Len(calls) = 1
                /\ calls[1].path = PlainListPath
                /\ calls[1].params["state"] = <<PyStr(<<"closed">>)>>
                /\ calls[1].params["milestone"] = request.args["milestone"]
           ELSE calls = <<>> /\ response.status = 404

\* An anonymous request for a configured status that is not an open one.
C9_Witness ==
    /\ At("get_issue_category")
    /\ Anonymous
    /\ request.view_args.issue_category = "wontfix"
    /\ request.args["state"] /= <<>>
    /\ response.status = 404

====
